---------------------------- MODULE Spec2Model ----------------------------
(***************************************************************************)
(* StockPlay virtual trading backend (stock_api): the trade execution      *)
(* engine (buy_stock / sell_stock / deposit_quantz), the ledger tables it  *)
(* writes, and the price fallback chain get_real_time_price.               *)
(*                                                                         *)
(* Money is kept as an integer number of ticks, one tick = 1/10000 of a    *)
(* currency unit, the finest precision a column stores (DECIMAL(10,4)).    *)
(* A DECIMAL(15,2) column holds a multiple of 100 ticks; PostgreSQL rounds *)
(* a value assigned to a numeric column half away from zero.  Python-side  *)
(* Decimal arithmetic on such values is exact.                             *)
(*                                                                         *)
(* The tables are shared by every server process; a request is one        *)
(* execution of a route handler, and another request's statements may run  *)
(* between two of its statements.  Each request slot below is one handler  *)
(* execution; its pc is the handler's position.  A step boundary is placed *)
(* wherever another request's commit can become visible: before a read of  *)
(* committed data and before the UPDATE user_wallets that takes the row    *)
(* lock.  From that UPDATE to COMMIT the wallet row lock is held, so no    *)
(* other trade of the same user can write in between: that stretch is one  *)
(* step.                                                                   *)
(***************************************************************************)
EXTENDS Integers, Sequences, FiniteSets, TLC

\* ------------------------------------------------------------------ units
TicksPerUnit == 10000
CentTicks == 100
InitialBalance == 10000
PercentLimit == 10000

\* ----------------------------------------------------------------- bounds
MaxOps == 3
\* days the clock runs
MaxDays == 2
\* seconds the session clock runs
MaxSeconds == 1
\* calls on tokens in one run of the session endpoints
MaxCalls == 4

\* ----------------------------------------------------------- input domains
\* user 1 sends the requests; user 2 is an account that only has a wallet
Users == {1, 2}
Traders == {1}
Symbols == {"AAPL"}
Quantities == {1, 2}
\* caller-supplied current_price values, in ticks: 5.005 and -6000.00 (the
\* request models accept any float); 6000.00 is the price the oracle quotes
\* to the requests that supply none
Prices == {50050, -60000000}
\* deposit amounts, in ticks: 0.00 and 1000.00
Amounts == {0, 10000000}
\* two handler executions can be in progress at the same time
Slots == {1, 2}

\* --------------------------------------------------------- numeric helpers
Abs(x) == IF x < 0 THEN -x ELSE x

Sgn(x) == IF x < 0 THEN -1 ELSE 1

\* numeric rounding to a multiple of m ticks, ties away from zero
RoundTo(x, m) == Sgn(x) * (((Abs(x) + m \div 2) \div m) * m)

\* a value stored in a DECIMAL(15,2) column
Numeric2(x) == RoundTo(x, CentTicks)

\* n / d rounded to a whole tick (a DECIMAL(10,4) column), ties away from zero
Numeric4Div(n, d) == Sgn(n) * ((2 * Abs(n) + d) \div (2 * d))


\* ------------------------------------------------------------------ state
VARIABLES
    user_wallets,        \* user_id -> wallet row (rows exist for DOMAIN only)
    portfolio_summary,   \* user_id -> summary row
    stock_holdings,      \* <<user_id, symbol>> -> holding row
    transactions,        \* committed rows of table transactions, in commit order
    notifications,       \* committed rows of table notifications
    stock_prices_cache,  \* symbol -> cached price
    next_transaction_id, \* the SERIAL sequence behind transactions.id
    reqs,                \* slot -> the handler execution in that slot
    response,            \* the result the last finished request returned
    ops,                 \* number of requests started so far
    oracle,              \* one execution of get_real_time_price
    now,                 \* the clock (CURRENT_TIMESTAMP, datetime.now()) in whole days
    refresh,             \* the price scheduler's run of _async_update_prices
    otp_codes,           \* rows of table otp_codes, by id
    otp_calls,           \* slot -> the execution of verify_otp in that slot
    verified,            \* otp_codes id -> number of verify_otp calls it made true
    refresh_tokens,      \* the tokens of table refresh_tokens (token is UNIQUE)
    issued,              \* the tokens signed so far
    revoked,             \* the tokens for which logout_user has returned True
    utcnow,              \* the clock in seconds
    auth_response        \* what the last call on a token returned

\* the password-reset state
otps == <<otp_codes, otp_calls, verified>>

\* the state beside the trading tables and the requests in flight
\* the session state
sessions == <<refresh_tokens, issued, revoked, utcnow, auth_response>>

aside == <<now, refresh, otps, sessions>>

vars == <<user_wallets, portfolio_summary, stock_holdings, transactions,
          notifications, stock_prices_cache, next_transaction_id, reqs,
          response, ops, oracle, aside>>

tables == <<user_wallets, portfolio_summary, stock_holdings, transactions,
            notifications, stock_prices_cache, next_transaction_id>>

\* the scheduler's job between runs: no connection, no open transaction
RefreshIdle == [pc |-> "idle", pending |-> <<>>, writes |-> [k \in {} |-> 0],
                began |-> 0]

\* the holding row k carries the row lock of the job's uncommitted UPDATE: an
\* UPDATE or DELETE of that row by another connection waits for the job's
\* transaction to end
RowLocked(k) == k \in DOMAIN stock_holdings /\ k \in DOMAIN refresh.writes

\* no verify_otp runs in the slot
NoOtpCall == [pc |-> "idle", user_id |-> 0, otp |-> "", id |-> 0]

\* no call on a token has returned yet
NoAuthResponse == [op |-> "none", accepted |-> FALSE]

\* a function without the key k (DELETE of one row)
Without(f, k) == [x \in (DOMAIN f) \ {k} |-> f[x]]

\* INSERT or overwrite of the row with key k
Put(f, k, row) == [x \in (DOMAIN f) \cup {k} |-> IF x = k THEN row ELSE f[x]]

RECURSIVE SumOver(_, _, _)
SumOver(f, keys, field) ==
    IF keys = {} THEN 0
    ELSE LET k == CHOOSE x \in keys : TRUE
         IN  f[k][field] + SumOver(f, keys \ {k}, field)

\* ------------------------------------------------------ trading_database.py
\* the row INSERT INTO user_wallets (user_id, quantz_balance) creates;
\* updated_at counts the row's UPDATEs (the trigger stamps each one)
NewWallet ==
    [quantz_balance |-> InitialBalance * TicksPerUnit,
     total_invested |-> 0,
     total_returns  |-> 0,
     updated_at     |-> 0]

NewSummary ==
    [total_portfolio_value   |-> 0,
     total_invested          |-> 0,
     total_gain_loss         |-> 0,
     total_gain_loss_percent |-> 0,
     number_of_holdings      |-> 0]

\* an initialisation that overwrites the row it finds
ResetWalletRows(wallets, user_id) == Put(wallets, user_id, NewWallet)

\* an initialisation whose INSERT is ON CONFLICT DO UPDATE of the balance
RefundWalletRows(wallets, user_id) ==
    Put(wallets, user_id,
        IF user_id \in DOMAIN wallets
        THEN [wallets[user_id] EXCEPT !.quantz_balance = NewWallet.quantz_balance]
        ELSE NewWallet)

\* initialize_user_wallet: both INSERTs are ON CONFLICT (user_id) DO NOTHING
InitWalletRows(wallets, user_id) ==
    IF user_id \in DOMAIN wallets THEN wallets ELSE Put(wallets, user_id, NewWallet)

InitSummaryRows(summary, user_id) ==
    IF user_id \in DOMAIN summary THEN summary ELSE Put(summary, user_id, NewSummary)

\* update_user_balance: UPDATE user_wallets SET quantz_balance = new_balance
UpdateUserBalance(wallets, user_id, new_balance) ==
    IF user_id \in DOMAIN wallets
    THEN Put(wallets, user_id,
             [wallets[user_id] EXCEPT !.quantz_balance = Numeric2(new_balance),
                                      !.updated_at = @ + 1])
    ELSE wallets

\* ------------------------------------------- trading_service.py: the oracle
\* The six sources of get_real_time_price, in the order of its try blocks.
Sources == <<"finnhub", "alpha_vantage", "yf_fast_info", "yf_info",
             "yf_history", "yahoo_chart">>

\* What one source can answer: a number (kind "value"), or nothing usable:
\* the call raised or timed out ("exception"), the API key is not set
\* ("no_key", sources 1 and 2 raise in that case), the HTTP status was not
\* 200 ("status"), or the field was absent ("missing").
Failures == {"exception", "no_key", "status", "missing"}

Fail(kind) == [kind |-> kind, value |-> 0]

Quote(v) == [kind |-> "value", value |-> v]

\* a test that lets a negative number through
AcceptedNonZero(o) == o.kind = "value" /\ o.value # 0

\* the test every try block applies: `if price and price > 0`
Accepted(o) == o.kind = "value" /\ o.value > 0

\* a result that reports the number 0 as a price
ZeroPrice == [found |-> TRUE, price |-> 0]

NoPrice == [found |-> FALSE, price |-> 0]

\* get_real_time_price from source i on: the first accepted answer, else None
RECURSIVE PriceFrom(_, _)
PriceFrom(outs, i) ==
    IF i > Len(Sources) THEN NoPrice
    ELSE IF Accepted(outs[i]) THEN [found |-> TRUE, price |-> outs[i].value]
    ELSE PriceFrom(outs, i + 1)

GetRealTimePrice(outs) == PriceFrom(outs, 1)

\* source 4 reads ticker.info and tries these fields in this order
InfoFields == <<"currentPrice", "regularMarketPrice", "previousClose", "open",
                "bid", "ask">>

\* the value of one field of ticker.info, in ticks; 0 also stands for a field
\* that is absent or null (`if price and price > 0` treats them alike)
FieldValues == {0, 420000, 435000}

\* source 4 from field j on: the first field that passes the test
RECURSIVE InfoPriceFrom(_, _)
InfoPriceFrom(info, j) ==
    IF j > Len(InfoFields) THEN Fail("missing")
    ELSE IF Accepted(Quote(info[j])) THEN Quote(info[j])
    ELSE InfoPriceFrom(info, j + 1)

\* the numbers a source can answer with, in ticks: 0, -42.00, 42.00, 43.50
SourceValues == {0, -420000, 420000, 435000}

Plain(o) == [answer |-> o, info |-> <<>>]

\* everything source i can answer when it is consulted
Answers(i) ==
    IF Sources[i] = "yf_info"
    THEN {Plain(Fail("exception"))} \cup
         {[answer |-> InfoPriceFrom(info, 1), info |-> info] :
              info \in [1..Len(InfoFields) -> FieldValues]}
    ELSE {Plain(Quote(v)) : v \in SourceValues} \cup
         {Plain(Fail(k)) : k \in
              CASE Sources[i] \in {"finnhub", "alpha_vantage"} -> Failures
                [] Sources[i] = "yahoo_chart" -> Failures \ {"no_key"}
                [] OTHER -> {"exception", "missing"}}

\* get_real_time_price as it runs: source is the try block it is about to
\* enter, consulted the sources it has called so far with their answers
OracleIdle == [pc |-> "idle", source |-> 0, consulted |-> <<>>, result |-> NoPrice]

OracleCalled == [pc |-> "call", source |-> 1, consulted |-> <<>>, result |-> NoPrice]

\* try block i: call the source; `return float(price)` if the answer passes
\* the test, otherwise fall through to the next try block
TrySource(i) ==
    /\ oracle.pc = "call"
    /\ oracle.source = i
    /\ \E a \in Answers(i) :
         LET log == Append(oracle.consulted,
                           [source |-> Sources[i], answer |-> a.answer,
                            info |-> a.info])
         IN  oracle' = IF Accepted(a.answer)
                       THEN [pc |-> "returned", source |-> i, consulted |-> log,
                             result |-> [found |-> TRUE, price |-> a.answer.value]]
                       ELSE [oracle EXCEPT !.source = i + 1, !.consulted = log]
    /\ UNCHANGED <<tables, reqs, response, ops, aside>>

\* after the last try block: "All price fetch methods failed", return None
AllMethodsFailed ==
    /\ oracle.pc = "call"
    /\ oracle.source = Len(Sources) + 1
    /\ oracle' = [oracle EXCEPT !.pc = "returned", !.result = NoPrice]
    /\ UNCHANGED <<tables, reqs, response, ops, aside>>

\* ------------------------------------- trading_service.py: summary refresh
\* k more decimal digits of r / d (0 <= r < d): <<digits as a number, remainder>>
RECURSIVE LongDiv(_, _, _, _)
LongDiv(r, d, k, acc) ==
    IF k = 0 THEN <<acc, r>>
    ELSE LongDiv((r * 10) % d, d, k - 1, acc * 10 + (r * 10) \div d)

\* total_gain_loss / total_invested * 100 as DECIMAL(8,4) stores it (in
\* 1/10000 of a percent), for total_invested > 0; both amounts are sums of
\* DECIMAL(15,2) columns.  overflow: the value does not fit DECIMAL(8,4)
\* (it rounds to 10000 or more) and PostgreSQL raises numeric field overflow.
GainLossPercent(gain_loss, invested) ==
    LET a  == Abs(gain_loss) \div CentTicks
        d  == invested \div CentTicks
        q0 == a \div d
        fr == LongDiv(a % d, d, 6, 0)
        v  == q0 * 1000000 + fr[1] + (IF 2 * fr[2] >= d THEN 1 ELSE 0)
    IN  IF q0 >= PercentLimit \div 100 \/ v >= PercentLimit * TicksPerUnit
        THEN [overflow |-> TRUE, value |-> 0]
        ELSE [overflow |-> FALSE, value |-> Sgn(gain_loss) * v]

\* _update_portfolio_summary: the row it computes from the user's holdings as
\* the trade's transaction sees them
SummaryRow(holdings, user_id) ==
    LET keys     == {k \in DOMAIN holdings : k[1] = user_id}
        value    == SumOver(holdings, keys, "current_value")
        invested == SumOver(holdings, keys, "total_cost")
        pct      == IF invested > 0 THEN GainLossPercent(value - invested, invested)
                    ELSE [overflow |-> FALSE, value |-> 0]
    IN  [overflow |-> pct.overflow,
         row |-> [total_portfolio_value   |-> value,
                  total_invested          |-> invested,
                  total_gain_loss         |-> value - invested,
                  total_gain_loss_percent |-> pct.value,
                  number_of_holdings      |-> Cardinality(keys)]]

\* ---------------------------------------------------------------- requests
IdleReq ==
    [pc |-> "idle", op |-> "none", user_id |-> 0, symbol |-> "", quantity |-> 0,
     current_price |-> 0, current_balance |-> 0, seen_updated_at |-> 0,
     current_qty |-> 0, avg_price |-> 0, total_cost |-> 0,
     transaction_id |-> 0, new_balance |-> 0,
     supplied |-> [given |-> FALSE, price |-> 0], oracle_calls |-> 0,
     quoted |-> [found |-> FALSE, price |-> 0], wallet_found |-> FALSE]

NoResponse ==
    [op |-> "none", user_id |-> 0, symbol |-> "", quantity |-> 0,
     success |-> FALSE, message |-> ""]

Free(r) == reqs[r].pc = "idle"

\* a new request takes the lowest free slot
CanStart(r) ==
    /\ ops < MaxOps
    /\ Free(r)
    /\ \A r2 \in Slots : r2 < r => ~Free(r2)

\* the handler of request req returns: its slot is free again, and its caller
\* holds the result next to the user, symbol and quantity it asked for
Finish(r, req, success, message) ==
    /\ reqs' = [reqs EXCEPT ![r] = IdleReq]
    /\ response' = [op |-> req.op, user_id |-> req.user_id, symbol |-> req.symbol,
                    quantity |-> req.quantity, success |-> success,
                    message |-> message]

\* what the oracle answers when the caller supplies no price
AllSourcesFail == [i \in 1..Len(Sources) |-> Fail("exception")]

SecondSourceAnswers ==
    [i \in 1..Len(Sources) |->
        IF i = 1 THEN Fail("no_key")
        ELSE IF i = 2 THEN Quote(60000000)
        ELSE Quote(50050)]

OracleScenarios == {AllSourcesFail, SecondSourceAnswers}

\* the request body's current_price: None, or one of the numbers in Prices
NoneGiven == [given |-> FALSE, price |-> 0]

Supplied == {NoneGiven} \cup {[given |-> TRUE, price |-> p] : p \in Prices}

\* a resolution that asks the oracle whatever the caller supplied
ResolveFromOracle(supplied, outs) ==
    [given |-> supplied.given, supplied |-> supplied, consulted |-> TRUE,
     quoted |-> GetRealTimePrice(outs),
     found |-> GetRealTimePrice(outs).found,
     price |-> GetRealTimePrice(outs).price]

\* `if current_price is None: current_price = await
\* self.get_real_time_price(symbol)`, `if not current_price: return ...`:
\* outs is what the sources would answer; consulted = the oracle was called,
\* quoted = what it returned, found / price = current_price after these lines
ResolvePrice(supplied, outs) ==
    IF supplied.given
    THEN [given |-> TRUE, supplied |-> supplied, consulted |-> FALSE,
          quoted |-> NoPrice, found |-> TRUE, price |-> supplied.price]
    ELSE [given |-> FALSE, supplied |-> supplied, consulted |-> TRUE,
          quoted |-> GetRealTimePrice(outs),
          found |-> GetRealTimePrice(outs).found,
          price |-> GetRealTimePrice(outs).price]

\* every way the price of a request can be resolved
ResolvedPrices ==
    {ResolvePrice(supplied, outs) : supplied \in Supplied, outs \in OracleScenarios}

\* ---------------------------------------------------------------- buy_stock
\* route buy_stock (wallet initialised if missing), then buy_stock up to the
\* affordability check
BuyStart(r) ==
    /\ CanStart(r)
    /\ \E user_id \in Traders, symbol \in Symbols, quantity \in Quantities,
          rp \in ResolvedPrices :
        LET wallets    == InitWalletRows(user_wallets, user_id)
            net_amount == rp.price * quantity
            wallet     == wallets[user_id]
            req        == [IdleReq EXCEPT !.op = "buy", !.user_id = user_id,
                                          !.supplied = rp.supplied,
                                          !.oracle_calls =
                                              IF rp.consulted THEN 1 ELSE 0,
                                          !.quoted = rp.quoted,
                                          !.symbol = symbol, !.quantity = quantity,
                                          !.current_price = rp.price,
                                          !.wallet_found =
                                              user_id \in DOMAIN user_wallets]
        IN  /\ user_wallets' = wallets
            /\ portfolio_summary' = InitSummaryRows(portfolio_summary, user_id)
            /\ IF ~rp.found
               THEN Finish(r, req, FALSE, "Unable to fetch current stock price")
               ELSE IF wallet.quantz_balance < net_amount
               THEN Finish(r, req, FALSE, "Insufficient balance")
               ELSE /\ reqs' = [reqs EXCEPT ![r] =
                        [req EXCEPT !.pc = "buy_execute",
                                    !.current_balance = wallet.quantz_balance,
                                    !.seen_updated_at = wallet.updated_at]]
                    /\ UNCHANGED response
    /\ ops' = ops + 1
    /\ UNCHANGED <<stock_holdings, transactions, notifications,
                   stock_prices_cache, next_transaction_id, oracle, aside>>

\* the row of table transactions a trade inserts
TradeRow(id, type, req, amount, notes) ==
    [id |-> id, user_id |-> req.user_id, transaction_type |-> type,
     symbol |-> req.symbol, quantity |-> req.quantity,
     price_per_share |-> req.current_price,
     total_amount |-> Numeric2(amount), fees |-> 0,
     net_amount |-> Numeric2(amount), notes |-> notes]

\* step 2 of buy_stock: UPDATE user_wallets SET quantz_balance = new_balance,
\* total_invested = total_invested + total_cost
BuyWalletUpdate(wallet, new_balance, total_cost) ==
    [wallet EXCEPT !.quantz_balance = Numeric2(new_balance),
                   !.total_invested = Numeric2(@ + total_cost),
                   !.updated_at = @ + 1]

\* an update that averages the two prices instead of weighting them by cost
BuyHoldingMeanOfPrices(holding, quantity, current_price) ==
    [quantity      |-> holding.quantity + quantity,
     average_price |-> Numeric4Div(holding.average_price + current_price, 2),
     total_cost    |-> Numeric2(holding.total_cost + current_price * quantity),
     current_price |-> current_price,
     current_value |-> Numeric2((holding.quantity + quantity) * current_price),
     last_updated  |-> now]

\* step 3 of buy_stock, existing holding: weighted average price
BuyHoldingUpdate(holding, quantity, current_price) ==
    LET new_total_qty  == holding.quantity + quantity
        new_total_cost == holding.total_cost + current_price * quantity
    IN  [quantity      |-> new_total_qty,
         average_price |-> Numeric4Div(new_total_cost, new_total_qty),
         total_cost    |-> Numeric2(new_total_cost),
         current_price |-> current_price,
         current_value |-> Numeric2(new_total_qty * current_price),
     last_updated  |-> now]

\* step 3 of buy_stock, no holding yet: INSERT INTO stock_holdings
BuyHoldingInsert(quantity, current_price) ==
    [quantity      |-> quantity,
     average_price |-> current_price,
     total_cost    |-> Numeric2(current_price * quantity),
     current_price |-> current_price,
     current_value |-> Numeric2(current_price * quantity),
     last_updated  |-> now]

\* buy_stock from BEGIN to COMMIT.  A statement of _update_portfolio_summary
\* that raises is swallowed there, but it leaves the PostgreSQL transaction
\* aborted, and COMMIT then rolls everything back without an error.
BuyExecute(r) ==
    LET req        == reqs[r]
        key        == <<req.user_id, req.symbol>>
        total_cost == req.current_price * req.quantity
        new_balance == req.current_balance - total_cost
        holdings   == Put(stock_holdings, key,
                          IF key \in DOMAIN stock_holdings
                          THEN BuyHoldingUpdate(stock_holdings[key], req.quantity,
                                                req.current_price)
                          ELSE BuyHoldingInsert(req.quantity, req.current_price))
        summary    == SummaryRow(holdings, req.user_id)
    IN  /\ req.pc = "buy_execute"
        /\ ~RowLocked(key)
        /\ next_transaction_id' = next_transaction_id + 1
        /\ stock_prices_cache' = Put(stock_prices_cache, req.symbol, req.current_price)
        /\ IF summary.overflow
           THEN UNCHANGED <<user_wallets, stock_holdings, portfolio_summary,
                            transactions>>
           ELSE /\ transactions' = Append(transactions,
                        TradeRow(next_transaction_id, "BUY", req, total_cost, 0))
                /\ user_wallets' = Put(user_wallets, req.user_id,
                        BuyWalletUpdate(user_wallets[req.user_id], new_balance,
                                        total_cost))
                /\ stock_holdings' = holdings
                /\ portfolio_summary' = Put(portfolio_summary, req.user_id, summary.row)
        /\ reqs' = [reqs EXCEPT ![r] = [req EXCEPT !.pc = "buy_notify",
                                                   !.transaction_id = next_transaction_id,
                                                   !.new_balance = new_balance]]
        /\ UNCHANGED <<notifications, response, ops, oracle, aside>>

\* _create_notification: one more row of type TRADE_EXECUTED with this title
\* for the user (the table is kept as the number of rows per user and title)
Notified(rows, user_id, title) ==
    Put(rows, <<user_id, title>>,
        IF <<user_id, title>> \in DOMAIN rows THEN rows[<<user_id, title>>] + 1 ELSE 1)

\* _create_notification after COMMIT, then the success result
BuyNotify(r) ==
    /\ reqs[r].pc = "buy_notify"
    /\ notifications' = Notified(notifications, reqs[r].user_id,
                                 "Stock Purchase Successful")
    /\ Finish(r, reqs[r], TRUE, "Successfully purchased")
    /\ UNCHANGED <<user_wallets, portfolio_summary, stock_holdings, transactions,
                   stock_prices_cache, next_transaction_id, ops, oracle, aside>>

\* --------------------------------------------------------------- sell_stock
\* sell_stock up to the ownership check (SELECT ... FROM stock_holdings)
SellStart(r) ==
    /\ CanStart(r)
    /\ \E user_id \in Traders, symbol \in Symbols, quantity \in Quantities,
          rp \in ResolvedPrices :
        LET key == <<user_id, symbol>>
            req == [IdleReq EXCEPT !.op = "sell", !.user_id = user_id,
                                          !.supplied = rp.supplied,
                                          !.oracle_calls =
                                              IF rp.consulted THEN 1 ELSE 0,
                                          !.quoted = rp.quoted,
                                   !.symbol = symbol, !.quantity = quantity,
                                   !.current_price = rp.price]
        IN  IF ~rp.found
            THEN Finish(r, req, FALSE, "Unable to fetch current stock price")
            ELSE IF key \notin DOMAIN stock_holdings
            THEN Finish(r, req, FALSE, "You don't own any shares of this stock")
            ELSE IF stock_holdings[key].quantity < quantity
            THEN Finish(r, req, FALSE, "Insufficient shares")
            ELSE /\ reqs' = [reqs EXCEPT ![r] =
                     [req EXCEPT !.pc = "sell_read_wallet",
                                 !.current_qty = stock_holdings[key].quantity,
                                 !.avg_price = stock_holdings[key].average_price,
                                 !.total_cost = stock_holdings[key].total_cost]]
                 /\ UNCHANGED response
    /\ ops' = ops + 1
    /\ UNCHANGED <<tables, oracle, aside>>

\* BEGIN, INSERT INTO transactions (the id is drawn from the sequence), then
\* self.db.get_user_wallet on a connection of its own: the committed balance
SellReadWallet(r) ==
    /\ reqs[r].pc = "sell_read_wallet"
    /\ next_transaction_id' = next_transaction_id + 1
    /\ reqs' = [reqs EXCEPT ![r] =
            [reqs[r] EXCEPT
               !.pc = "sell_execute",
               !.transaction_id = next_transaction_id,
               !.current_balance = user_wallets[reqs[r].user_id].quantz_balance,
               !.seen_updated_at = user_wallets[reqs[r].user_id].updated_at]]
    /\ UNCHANGED <<user_wallets, portfolio_summary, stock_holdings, transactions,
                   notifications, stock_prices_cache, response, ops, oracle, aside>>

\* realized_gain_loss = (current_price - avg_cost_per_share) * quantity
RealizedGainLoss(current_price, avg_price, quantity) ==
    (current_price - avg_price) * quantity

\* f"{float(x):.2f}": x to the nearest cent; when x lies exactly between two
\* cents the result follows the binary double next to x, either neighbour
FormatCents(x) ==
    IF Abs(x) % CentTicks = CentTicks \div 2
    THEN {x - CentTicks \div 2, x + CentTicks \div 2}
    ELSE {Numeric2(x)}

\* step 2 of sell_stock: UPDATE user_wallets SET quantz_balance = new_balance,
\* total_returns = total_returns + realized_gain_loss
SellWalletUpdate(wallet, new_balance, realized_gain_loss) ==
    [wallet EXCEPT !.quantz_balance = Numeric2(new_balance),
                   !.total_returns = Numeric2(@ + realized_gain_loss),
                   !.updated_at = @ + 1]

\* a sell that always takes the UPDATE branch, also when nothing is left
SellHoldingKeepsRow(holdings, key, req) ==
    IF key \in DOMAIN holdings
    THEN Put(holdings, key,
             [holdings[key] EXCEPT
                !.quantity = req.current_qty - req.quantity,
                !.total_cost = Numeric2(req.total_cost - req.avg_price * req.quantity),
                !.current_price = req.current_price,
                !.current_value = Numeric2((req.current_qty - req.quantity)
                                               * req.current_price),
                !.last_updated = now])
    ELSE holdings

\* step 3 of sell_stock on the holdings table, from the quantity, average
\* price and total cost read before BEGIN
SellHoldingWrite(holdings, key, req) ==
    IF req.current_qty = req.quantity
    THEN Without(holdings, key)
    ELSE IF key \in DOMAIN holdings
    THEN LET new_qty == req.current_qty - req.quantity
         IN  Put(holdings, key,
                 [holdings[key] EXCEPT
                    !.quantity = new_qty,
                    !.total_cost = Numeric2(req.total_cost - req.avg_price * req.quantity),
                    !.current_price = req.current_price,
                    !.current_value = Numeric2(new_qty * req.current_price),
                    !.last_updated = now])
    ELSE holdings

\* sell_stock from UPDATE user_wallets to COMMIT
SellExecute(r) ==
    LET req            == reqs[r]
        key            == <<req.user_id, req.symbol>>
        total_proceeds == req.current_price * req.quantity
        realized       == RealizedGainLoss(req.current_price, req.avg_price,
                                           req.quantity)
        new_balance    == req.current_balance + total_proceeds
        holdings       == SellHoldingWrite(stock_holdings, key, req)
        summary        == SummaryRow(holdings, req.user_id)
    IN  /\ req.pc = "sell_execute"
        /\ ~RowLocked(key)
        /\ stock_prices_cache' = Put(stock_prices_cache, req.symbol, req.current_price)
        /\ IF summary.overflow
           THEN UNCHANGED <<user_wallets, stock_holdings, portfolio_summary,
                            transactions>>
           ELSE /\ \E notes \in FormatCents(realized) :
                      transactions' = Append(transactions,
                          TradeRow(req.transaction_id, "SELL", req, total_proceeds,
                                   notes))
                /\ user_wallets' = Put(user_wallets, req.user_id,
                        SellWalletUpdate(user_wallets[req.user_id], new_balance,
                                         realized))
                /\ stock_holdings' = holdings
                /\ portfolio_summary' = Put(portfolio_summary, req.user_id, summary.row)
        /\ reqs' = [reqs EXCEPT ![r] = [req EXCEPT !.pc = "sell_notify",
                                                   !.new_balance = new_balance]]
        /\ UNCHANGED <<notifications, next_transaction_id, response, ops, oracle, aside>>

SellNotify(r) ==
    /\ reqs[r].pc = "sell_notify"
    /\ notifications' = Notified(notifications, reqs[r].user_id,
                                 "Stock Sale Successful")
    /\ Finish(r, reqs[r], TRUE, "Successfully sold")
    /\ UNCHANGED <<user_wallets, portfolio_summary, stock_holdings, transactions,
                   stock_prices_cache, next_transaction_id, ops, oracle, aside>>

\* ------------------------------------- a statement of the atomic update raises
\* the rows a trade writes inside its database transaction
Rows(wallets, holdings, log) ==
    [user_wallets |-> wallets, stock_holdings |-> holdings, transactions |-> log]

\* the statements of the try block between BEGIN and conn.close() that raise
FailingStatements == {"insert_transaction", "update_wallet", "write_holding", "commit"}

\* a handler without the ROLLBACK: what was written before the exception stays
KeepWritten(committed, written) == written

\* `except Exception as e: cursor.execute("ROLLBACK;")`: the rows written by
\* this database transaction are discarded, the committed rows stay
Rollback(committed, written) == committed

\* the rows as buy_stock has written them when statement stmt raises
BuyWritten(req, stmt) ==
    LET key        == <<req.user_id, req.symbol>>
        total_cost == req.current_price * req.quantity
        log        == Append(transactions,
                             TradeRow(next_transaction_id, "BUY", req, total_cost, 0))
        wallets    == Put(user_wallets, req.user_id,
                          BuyWalletUpdate(user_wallets[req.user_id],
                                          req.current_balance - total_cost, total_cost))
        holdings   == Put(stock_holdings, key,
                          IF key \in DOMAIN stock_holdings
                          THEN BuyHoldingUpdate(stock_holdings[key], req.quantity,
                                                req.current_price)
                          ELSE BuyHoldingInsert(req.quantity, req.current_price))
    IN  CASE stmt = "insert_transaction" -> Rows(user_wallets, stock_holdings, transactions)
          [] stmt = "update_wallet"      -> Rows(user_wallets, stock_holdings, log)
          [] stmt = "write_holding"      -> Rows(wallets, stock_holdings, log)
          [] stmt = "commit"             -> Rows(wallets, holdings, log)

\* buy_stock when a statement between BEGIN and COMMIT raises: ROLLBACK,
\* re-raise, and the outer handler returns "Transaction failed: ..."; the id
\* drawn by the INSERT is not given back, and the price cache, written on a
\* connection of its own before COMMIT, keeps the price
BuyFails(r) ==
    /\ reqs[r].pc = "buy_execute"
    /\ \E stmt \in FailingStatements :
        LET rows == Rollback(Rows(user_wallets, stock_holdings, transactions),
                             BuyWritten(reqs[r], stmt))
        IN  /\ user_wallets' = rows.user_wallets
            /\ stock_holdings' = rows.stock_holdings
            /\ transactions' = rows.transactions
            /\ next_transaction_id' =
                  IF stmt = "insert_transaction" THEN next_transaction_id
                  ELSE next_transaction_id + 1
            /\ stock_prices_cache' =
                  IF stmt = "commit"
                  THEN Put(stock_prices_cache, reqs[r].symbol, reqs[r].current_price)
                  ELSE stock_prices_cache
    /\ Finish(r, reqs[r], FALSE, "Transaction failed")
    /\ UNCHANGED <<portfolio_summary, notifications, ops, oracle, aside>>

\* the rows as sell_stock has written them when statement stmt raises
SellWritten(req, stmt) ==
    LET key      == <<req.user_id, req.symbol>>
        proceeds == req.current_price * req.quantity
        realized == RealizedGainLoss(req.current_price, req.avg_price, req.quantity)
        log      == Append(transactions,
                           TradeRow(req.transaction_id, "SELL", req, proceeds,
                                    Numeric2(realized)))
        wallets  == Put(user_wallets, req.user_id,
                        SellWalletUpdate(user_wallets[req.user_id],
                                         req.current_balance + proceeds, realized))
    IN  CASE stmt = "insert_transaction" -> Rows(user_wallets, stock_holdings, transactions)
          [] stmt = "update_wallet"      -> Rows(user_wallets, stock_holdings, log)
          [] stmt = "write_holding"      -> Rows(wallets, stock_holdings, log)
          [] stmt = "commit"             ->
                 Rows(wallets, SellHoldingWrite(stock_holdings, key, req), log)

\* sell_stock when a statement between BEGIN and COMMIT raises: the INSERT
\* before the wallet is read, the others after it
SellFails(r) ==
    /\ reqs[r].pc \in {"sell_read_wallet", "sell_execute"}
    /\ \E stmt \in FailingStatements :
        LET rows == Rollback(Rows(user_wallets, stock_holdings, transactions),
                             SellWritten(reqs[r], stmt))
        IN  /\ (stmt = "insert_transaction") <=> (reqs[r].pc = "sell_read_wallet")
            /\ user_wallets' = rows.user_wallets
            /\ stock_holdings' = rows.stock_holdings
            /\ transactions' = rows.transactions
            /\ stock_prices_cache' =
                  IF stmt = "commit"
                  THEN Put(stock_prices_cache, reqs[r].symbol, reqs[r].current_price)
                  ELSE stock_prices_cache
    /\ Finish(r, reqs[r], FALSE, "Transaction failed")
    /\ UNCHANGED <<portfolio_summary, notifications, next_transaction_id, ops, oracle, aside>>

\* a notification whose exception is not caught: it reaches the handlers of
\* the trade, which return the failure result
BuyNotifyRaises(r) ==
    /\ reqs[r].pc = "buy_notify"
    /\ Finish(r, reqs[r], FALSE, "Transaction failed")
    /\ UNCHANGED <<tables, ops, oracle, aside>>

\* _create_notification when its INSERT or its connection raises: the
\* exception is logged there and the trade returns its success result
BuyNotifyFails(r) ==
    /\ reqs[r].pc = "buy_notify"
    /\ Finish(r, reqs[r], TRUE, "Successfully purchased")
    /\ UNCHANGED <<tables, ops, oracle, aside>>

SellNotifyFails(r) ==
    /\ reqs[r].pc = "sell_notify"
    /\ Finish(r, reqs[r], TRUE, "Successfully sold")
    /\ UNCHANGED <<tables, ops, oracle, aside>>

\* ------------------------------------------- trading_routes.py: deposit_quantz
\* deposit_quantz up to new_balance = float(wallet["quantz_balance"]) + amount
DepositStart(r) ==
    /\ CanStart(r)
    /\ \E user_id \in Traders, amount \in Amounts :
        LET req == [IdleReq EXCEPT !.op = "deposit", !.user_id = user_id,
                                   !.current_price = amount]
            wallets == InitWalletRows(user_wallets, user_id)
        IN  IF amount <= 0
            THEN /\ Finish(r, req, FALSE, "Amount must be positive")
                 /\ UNCHANGED <<user_wallets, portfolio_summary>>
            ELSE /\ user_wallets' = wallets
                 /\ portfolio_summary' = InitSummaryRows(portfolio_summary, user_id)
                 /\ reqs' = [reqs EXCEPT ![r] =
                        [req EXCEPT !.pc = "deposit_update",
                                    !.current_balance = wallets[user_id].quantz_balance,
                                    !.seen_updated_at = wallets[user_id].updated_at,
                                    !.new_balance = wallets[user_id].quantz_balance + amount]]
                 /\ UNCHANGED response
    /\ ops' = ops + 1
    /\ UNCHANGED <<stock_holdings, transactions, notifications,
                   stock_prices_cache, next_transaction_id, oracle, aside>>

\* the row the deposit inserts: symbol, quantity and price_per_share stay NULL
\* (0 here), the notes name the amount
DepositRow(id, user_id, amount) ==
    [id |-> id, user_id |-> user_id, transaction_type |-> "DEPOSIT",
     symbol |-> "", quantity |-> 0, price_per_share |-> 0,
     total_amount |-> Numeric2(amount), fees |-> 0,
     net_amount |-> Numeric2(amount), notes |-> amount]

\* trading_db.update_user_balance(user_id, new_balance), committed on its own
DepositUpdate(r) ==
    /\ reqs[r].pc = "deposit_update"
    /\ user_wallets' = UpdateUserBalance(user_wallets, reqs[r].user_id,
                                         reqs[r].new_balance)
    /\ reqs' = [reqs EXCEPT ![r].pc = "deposit_record"]
    /\ UNCHANGED <<portfolio_summary, stock_holdings, transactions, notifications,
                   stock_prices_cache, next_transaction_id, response, ops, oracle, aside>>

\* INSERT INTO transactions (..., 'DEPOSIT', amount, amount, notes), commit
DepositRecord(r) ==
    /\ reqs[r].pc = "deposit_record"
    /\ transactions' = Append(transactions,
            DepositRow(next_transaction_id, reqs[r].user_id, reqs[r].current_price))
    /\ next_transaction_id' = next_transaction_id + 1
    /\ Finish(r, reqs[r], TRUE, "Successfully deposited")
    /\ UNCHANGED <<user_wallets, portfolio_summary, stock_holdings, notifications,
                   stock_prices_cache, ops, oracle, aside>>

\* update_user_balance catches its exception and returns False: HTTP 500
\* 'Failed to update balance' with no row written
DepositUpdateFails(r) ==
    /\ reqs[r].pc = "deposit_update"
    /\ Finish(r, reqs[r], FALSE, "Failed to update balance")
    /\ UNCHANGED <<tables, ops, oracle, aside>>

\* get_connection or the INSERT of the DEPOSIT row raises after
\* update_user_balance has committed: `except Exception` answers HTTP 500
\* 'Failed to process deposit'; a failed INSERT has consumed its id
DepositRecordFails(r) ==
    /\ reqs[r].pc = "deposit_record"
    /\ \E stmt \in {"get_connection", "insert_transaction"} :
          next_transaction_id' = IF stmt = "insert_transaction"
                                 THEN next_transaction_id + 1
                                 ELSE next_transaction_id
    /\ Finish(r, reqs[r], FALSE, "Failed to process deposit")
    /\ UNCHANGED <<user_wallets, portfolio_summary, stock_holdings, transactions,
                   notifications, stock_prices_cache, ops, oracle, aside>>

\* ------------------------------------------- trading_routes.py: get_portfolio
\* how a statement or a call of a read endpoint ends
Outcomes == {"ok", "raises"}

\* round(x, 2) of a float: the nearest cent; when x lies exactly between two
\* cents the result is fixed by the double next to x, one of the neighbours
Round2(x) == CHOOSE v \in FormatCents(x) : TRUE

\* the response of a read endpoint: the result next to the user, the warning
\* (or the HTTP error detail) as message, the payload as data
ViewResponse(op, user_id, success, message, data) ==
    [op |-> op, user_id |-> user_id, symbol |-> "", quantity |-> 0,
     success |-> success, message |-> message, data |-> data]

\* empty_portfolio
EmptyPortfolio ==
    [wallet_balance |-> 0, total_portfolio_value |-> 0, number_of_holdings |-> 0,
     holdings |-> [k \in {} |-> 0]]

\* the detail of the HTTP 500 answered when get_connection raises
NoConnection ==
    "Failed to retrieve portfolio: Could not connect to the PostgreSQL database"

\* a handler that answers a failing query with HTTP 500
DbErrorAsFailure(user_id) ==
    ViewResponse("portfolio", user_id, FALSE,
                 "Failed to retrieve portfolio: query failed", EmptyPortfolio)

\* `except Exception as db_error`: success with the empty portfolio and a warning
DbErrorResponse(user_id) ==
    ViewResponse("portfolio", user_id, TRUE,
                 "Portfolio data temporarily unavailable", EmptyPortfolio)

\* an UPDATE that also rebases the holding on the quoted price
PortfolioRebase(row, price) ==
    [row EXCEPT !.current_price = price,
                !.current_value = Numeric2(row.quantity * price),
                !.average_price = price,
                !.total_cost = Numeric2(row.quantity * price),
                !.last_updated = now]

\* UPDATE stock_holdings SET current_price = %s, current_value = quantity * %s,
\* last_updated = CURRENT_TIMESTAMP
PortfolioPriceUpdate(row, price) ==
    [row EXCEPT !.current_price = price,
                !.current_value = Numeric2(row.quantity * price),
                !.last_updated = now]

\* the simulated price of the last fallback: avg_price moved by up to 5 %
SyntheticPrice(average_price) == average_price + average_price \div 20

\* a fallback whose arithmetic succeeds: real_time_price becomes the
\* simulated price
FallbackSynthetic(row) == [found |-> TRUE, price |-> SyntheticPrice(row.average_price)]

\* the branch `if not real_time_price or real_time_price <= 0`: it subtracts
\* avg_price, a Decimal of the row, from a float (the stored or the manually
\* fetched price) or multiplies it by one, and both raise TypeError; the
\* exception leaves through `except Exception as holding_error`, so
\* real_time_price is never assigned
FallbackPrice(row) == NoPrice

\* real_time_price as the UPDATE of the loop body sees it
PortfolioQuote(row, quote) ==
    IF quote.found THEN quote ELSE FallbackPrice(row)

\* days_held = (datetime.now() - last_updated).days, from the last_updated the
\* SELECT of the holdings returned; the column is filled by its default and by
\* every UPDATE, so the `else 1` of a missing value is never taken
DaysHeld(last_updated) == now - last_updated

\* holding_dict: the normal one when the quote was found and the metrics were
\* computed, else the one of `except Exception as holding_error`, valued at
\* the average price and marked 'error'
HoldingDict(row, quote, metrics) ==
    LET priced == quote.found /\ metrics = "ok"
        value  == IF priced THEN quote.price * row.quantity
                  ELSE row.average_price * row.quantity
    IN  [quantity      |-> row.quantity,
         average_price |-> Round2(row.average_price),
         total_cost    |-> Round2(row.total_cost),
         current_value |-> Round2(value),
         market_value  |-> value,
         days_held     |-> IF priced THEN DaysHeld(row.last_updated) ELSE 0,
         error         |-> ~priced]

\* get_portfolio.  get_connection raising leaves through the outer handler
\* (HTTP 500), a failing SELECT through `except Exception as db_error`.
\* Without a quote the fallback compares the stored price, a
\* float, with avg_price, a Decimal: that raises inside the per-holding try,
\* so no price is written and the holding is reported at its average price.
GetPortfolio(r) ==
    /\ CanStart(r)
    /\ \E user_id \in Users, connection \in Outcomes, select \in Outcomes,
          outs \in OracleScenarios, update \in Outcomes, metrics \in Outcomes,
          wallet_select \in Outcomes :
        LET req   == [IdleReq EXCEPT !.op = "portfolio", !.user_id = user_id]
            keys  == {k \in DOMAIN stock_holdings :
                         k[1] = user_id /\ stock_holdings[k].quantity > 0}
            quote == [k \in keys |->
                         PortfolioQuote(stock_holdings[k], GetRealTimePrice(outs))]
            dicts == [k \in keys |->
                         HoldingDict(stock_holdings[k], quote[k], metrics)]
            updated == [k \in DOMAIN stock_holdings |->
                           IF k \in keys /\ quote[k].found /\ update = "ok"
                           THEN PortfolioPriceUpdate(stock_holdings[k], quote[k].price)
                           ELSE stock_holdings[k]]
            balance == IF user_id \in DOMAIN user_wallets
                       THEN user_wallets[user_id].quantz_balance ELSE 0
            data  == [wallet_balance |-> balance,
                      total_portfolio_value |->
                          Round2(SumOver(dicts, keys, "market_value")),
                      number_of_holdings |-> Cardinality(keys),
                      holdings |-> [s \in {k[2] : k \in keys} |->
                                       dicts[<<user_id, s>>]]]
        IN  /\ reqs' = reqs
            /\ (connection = "ok" /\ select = "ok" /\ update = "ok")
                   => \A k \in keys : quote[k].found => ~RowLocked(k)
            /\ IF connection = "raises"
               THEN /\ response' = ViewResponse("portfolio", user_id, FALSE,
                                          NoConnection, EmptyPortfolio)
                    /\ UNCHANGED stock_holdings
               ELSE IF select = "raises"
               THEN /\ response' = DbErrorResponse(user_id)
                    /\ UNCHANGED stock_holdings
               ELSE IF keys = {}
               THEN /\ response' = ViewResponse("portfolio", user_id, TRUE, "",
                                                EmptyPortfolio)
                    /\ UNCHANGED stock_holdings
               ELSE /\ stock_holdings' = updated
                    /\ response' = IF wallet_select = "raises"
                                   THEN DbErrorResponse(user_id)
                                   ELSE ViewResponse("portfolio", user_id, TRUE, "", data)
    /\ ops' = ops + 1
    /\ UNCHANGED <<user_wallets, portfolio_summary, transactions, notifications,
                   stock_prices_cache, next_transaction_id, oracle, aside>>

\* ---------------------------------------------- trading_routes.py: get_wallet
\* the wallet view built from a stored row
WalletView(row) ==
    [quantz_balance |-> row.quantz_balance, total_invested |-> row.total_invested,
     total_returns |-> row.total_returns]

\* a default view returned without its warning
WalletDefaultsSilent(user_id, warning) ==
    ViewResponse("wallet", user_id, TRUE, "", WalletView(NewWallet))

\* the default view: 10000.0, 0.0, 0.0 and a warning
WalletDefaults(user_id, warning) ==
    ViewResponse("wallet", user_id, TRUE, warning, WalletView(NewWallet))

\* get_wallet.  get_user_wallet returns None for a missing row and for a
\* failing read; initialize_user_wallet returns False when it fails; body is
\* any exception raised in the handler itself
GetWallet(r) ==
    /\ CanStart(r)
    /\ \E user_id \in Users, first_read \in Outcomes, initialize \in Outcomes,
          second_read \in Outcomes, body \in Outcomes :
        LET found1  == first_read = "ok" /\ user_id \in DOMAIN user_wallets
            wallets == IF ~found1 /\ initialize = "ok"
                       THEN InitWalletRows(user_wallets, user_id) ELSE user_wallets
            summary == IF ~found1 /\ initialize = "ok"
                       THEN InitSummaryRows(portfolio_summary, user_id)
                       ELSE portfolio_summary
            found2  == \/ found1
                       \/ second_read = "ok" /\ user_id \in DOMAIN wallets
        IN  /\ user_wallets' = wallets
            /\ portfolio_summary' = summary
            /\ response' =
                  IF body = "raises"
                  THEN WalletDefaults(user_id, "Wallet service temporarily unavailable")
                  ELSE IF ~found2
                  THEN WalletDefaults(user_id, "Wallet data temporarily unavailable")
                  ELSE ViewResponse("wallet", user_id, TRUE, "",
                                    WalletView(wallets[user_id]))
    /\ reqs' = reqs
    /\ ops' = ops + 1
    /\ UNCHANGED <<stock_holdings, transactions, notifications,
                   stock_prices_cache, next_transaction_id, oracle, aside>>

\* ------------------------------------------------------------ specification
InitTables ==
    /\ user_wallets = [u \in Users \ Traders |-> NewWallet]
    /\ portfolio_summary = [u \in Users \ Traders |-> NewSummary]
    /\ stock_holdings = [k \in {} |-> BuyHoldingInsert(1, 1)]
    /\ transactions = <<>>
    /\ notifications = [k \in {} |-> 0]
    /\ stock_prices_cache = [s \in {} |-> 0]
    /\ next_transaction_id = 1
    /\ reqs = [r \in Slots |-> IdleReq]
    /\ response = NoResponse
    /\ ops = 0
    /\ now = 0
    /\ refresh = RefreshIdle
    /\ otp_codes = <<>>
    /\ otp_calls = [c \in Slots |-> NoOtpCall]
    /\ verified = <<>>
    /\ refresh_tokens = {}
    /\ issued = {}
    /\ revoked = {}
    /\ utcnow = 0
    /\ auth_response = NoAuthResponse

Init == InitTables /\ oracle = OracleIdle

\* requests of the trading endpoints, interleaved statement by statement
Next ==
    \E r \in Slots :
        \/ BuyStart(r)
        \/ BuyExecute(r)
        \/ BuyNotify(r)
        \/ SellStart(r)
        \/ SellReadWallet(r)
        \/ SellExecute(r)
        \/ SellNotify(r)
        \/ DepositStart(r)
        \/ DepositUpdate(r)
        \/ DepositRecord(r)

Spec == Init /\ [][Next]_vars

\* no request is in progress
Quiet == \A r \in Slots : Free(r)

\* the same requests executed one at a time: a request starts only when no
\* other is in progress
NextSeq ==
    \E r \in Slots :
        \/ Quiet /\ BuyStart(r)
        \/ BuyExecute(r)
        \/ BuyNotify(r)
        \/ Quiet /\ SellStart(r)
        \/ SellReadWallet(r)
        \/ SellExecute(r)
        \/ SellNotify(r)
        \/ Quiet /\ DepositStart(r)
        \/ DepositUpdate(r)
        \/ DepositRecord(r)

SpecSeq == Init /\ [][NextSeq]_vars

\* requests executed one at a time, with the two writes of a deposit failing
NextDeposit ==
    \/ NextSeq
    \/ \E r \in Slots : DepositUpdateFails(r)
    \/ \E r \in Slots : DepositRecordFails(r)

SpecDeposit == Init /\ [][NextDeposit]_vars

\* one call of get_real_time_price, the sources answering as they are asked
InitOracle == InitTables /\ oracle = OracleCalled

NextOracle ==
    \/ \E i \in 1..Len(Sources) : TrySource(i)
    \/ AllMethodsFailed

SpecOracle == InitOracle /\ [][NextOracle]_vars

\* requests executed one at a time, with statements of the atomic update and
\* the notification INSERT raising
NextFaults ==
    \E r \in Slots :
        \/ Quiet /\ BuyStart(r)
        \/ BuyExecute(r)
        \/ BuyFails(r)
        \/ BuyNotify(r)
        \/ BuyNotifyFails(r)
        \/ Quiet /\ SellStart(r)
        \/ SellReadWallet(r)
        \/ SellExecute(r)
        \/ SellFails(r)
        \/ SellNotify(r)
        \/ SellNotifyFails(r)
        \/ Quiet /\ DepositStart(r)
        \/ DepositUpdate(r)
        \/ DepositRecord(r)

SpecFaults == Init /\ [][NextFaults]_vars

\* trades and the two read endpoints, one request at a time
NextViews ==
    \E r \in Slots :
        \/ Quiet /\ BuyStart(r)
        \/ BuyExecute(r)
        \/ BuyNotify(r)
        \/ Quiet /\ SellStart(r)
        \/ SellReadWallet(r)
        \/ SellExecute(r)
        \/ SellNotify(r)
        \/ Quiet /\ GetPortfolio(r)
        \/ Quiet /\ GetWallet(r)

SpecViews == Init /\ [][NextViews]_vars

\* interleaved trades and deposits, with GET /trading/wallet called among them
NextWallet ==
    \E r \in Slots :
        \/ BuyStart(r)
        \/ BuyExecute(r)
        \/ BuyNotify(r)
        \/ SellStart(r)
        \/ SellReadWallet(r)
        \/ SellExecute(r)
        \/ SellNotify(r)
        \/ DepositStart(r)
        \/ DepositUpdate(r)
        \/ DepositRecord(r)
        \/ GetWallet(r)

SpecWallet == Init /\ [][NextWallet]_vars

\* ------------------------------------- price_scheduler.py: the refresh job
\* the symbols SELECT DISTINCT returns, in the order the loop takes them
RECURSIVE InOrder(_)
InOrder(symbols) ==
    IF symbols = {} THEN <<>>
    ELSE LET s == CHOOSE x \in symbols : TRUE
         IN  <<s>> \o InOrder(symbols \ {s})

HeldSymbols == {k[2] : k \in {h \in DOMAIN stock_holdings :
                                  stock_holdings[h].quantity > 0}}

\* _async_update_prices up to the loop: the SELECT opens the job's
\* transaction; without holdings the connection is closed at once
RefreshStart ==
    /\ refresh.pc = "idle"
    /\ refresh' = IF HeldSymbols = {} THEN RefreshIdle
                  ELSE [pc |-> "price", pending |-> InOrder(HeldSymbols),
                        writes |-> refresh.writes, began |-> now]
    /\ UNCHANGED <<tables, reqs, response, ops, oracle, now, otps, sessions>>

\* the loop body for the next symbol: the await on get_real_time_price has
\* returned; with a price the job UPDATEs every holding of the symbol inside
\* its open transaction (the rows stay locked and the new values invisible to
\* others until its commit) and _update_price_cache commits the cache row on a
\* connection of its own
RefreshPrice ==
    /\ refresh.pc = "price"
    /\ \E outs \in OracleScenarios :
          LET quote  == GetRealTimePrice(outs)
              symbol == Head(refresh.pending)
              rows   == {k \in DOMAIN stock_holdings :
                            k[2] = symbol /\ stock_holdings[k].quantity > 0}
          IN  IF quote.found
              THEN /\ refresh' =
                         [refresh EXCEPT
                            !.pc = "sleep",
                            !.writes = [k \in DOMAIN refresh.writes \cup rows |->
                                           IF k \in rows THEN quote.price
                                           ELSE refresh.writes[k]]]
                   /\ stock_prices_cache' =
                         Put(stock_prices_cache, symbol, quote.price)
              ELSE /\ refresh' = [refresh EXCEPT !.pc = "sleep"]
                   /\ UNCHANGED stock_prices_cache
    /\ UNCHANGED <<user_wallets, portfolio_summary, stock_holdings, transactions,
                   notifications, next_transaction_id, reqs, response, ops,
                   oracle, now, otps, sessions>>

\* await asyncio.sleep(0.5) at the end of the loop body has passed: on to the
\* next symbol's price, or out of the loop
RefreshSleep ==
    /\ refresh.pc = "sleep"
    /\ refresh' = [refresh EXCEPT
                      !.pending = Tail(refresh.pending),
                      !.pc = IF Tail(refresh.pending) = <<>> THEN "commit"
                             ELSE "price"]
    /\ UNCHANGED <<tables, reqs, response, ops, oracle, now, otps, sessions>>

\* the job's UPDATE of one row as its commit makes it visible;
\* CURRENT_TIMESTAMP is the start of the job's transaction
RefreshPriceUpdate(row, price) ==
    [row EXCEPT !.current_price = price,
                !.current_value = Numeric2(row.quantity * price),
                !.last_updated = refresh.began]

\* conn.commit() after the loop, then conn.close()
RefreshCommit ==
    /\ refresh.pc = "commit"
    /\ stock_holdings' =
          [k \in DOMAIN stock_holdings |->
              IF k \in DOMAIN refresh.writes
              THEN RefreshPriceUpdate(stock_holdings[k], refresh.writes[k])
              ELSE stock_holdings[k]]
    /\ refresh' = RefreshIdle
    /\ UNCHANGED <<user_wallets, portfolio_summary, transactions, notifications,
                   stock_prices_cache, next_transaction_id, reqs, response, ops,
                   oracle, now, otps, sessions>>

\* trades and the read endpoints, one request at a time, with the scheduler's
\* job running beside them
NextRefresh ==
    \/ NextViews
    \/ RefreshStart
    \/ RefreshPrice
    \/ RefreshSleep
    \/ RefreshCommit

SpecRefresh == Init /\ [][NextRefresh]_vars

\* ------------------------------------------ auth_database.py: password reset
\* the codes generate_otp draws (six digits each)
Otps == {"111111", "222222"}

\* everything but the password-reset state
trading == <<tables, reqs, response, ops, oracle, now, refresh>>

\* UPDATE otp_codes SET used = TRUE WHERE user_id = %s AND used = FALSE
InvalidateOtps(rows, user_id) ==
    [i \in 1..Len(rows) |->
        IF rows[i].user_id = user_id THEN [rows[i] EXCEPT !.used = TRUE]
        ELSE rows[i]]

\* store_otp, one transaction: the user's unused codes are marked used and
\* the new code is inserted, unused and not expired
StoreOtp ==
    /\ ops < MaxOps
    /\ \E user_id \in Users, otp \in Otps :
          otp_codes' = Append(InvalidateOtps(otp_codes, user_id),
                              [user_id |-> user_id, otp |-> otp, used |-> FALSE,
                               expired |-> FALSE])
    /\ verified' = Append(verified, 0)
    /\ ops' = ops + 1
    /\ UNCHANGED <<tables, reqs, response, oracle, now, refresh, otp_calls,
                   sessions>>

\* NOW() passes the expiry_time of row id
OtpExpires ==
    /\ \E id \in 1..Len(otp_codes) :
          /\ ~otp_codes[id].expired
          /\ otp_codes' = [otp_codes EXCEPT ![id].expired = TRUE]
    /\ UNCHANGED <<trading, otp_calls, verified, sessions>>

\* the rows SELECT id FROM otp_codes WHERE user_id = %s AND otp = %s AND
\* expiry_time > NOW() AND used = FALSE returns
MatchingOtps(user_id, otp) ==
    {id \in 1..Len(otp_codes) :
        /\ otp_codes[id].user_id = user_id
        /\ otp_codes[id].otp = otp
        /\ ~otp_codes[id].expired
        /\ ~otp_codes[id].used}

\* verify_otp up to fetchone: without a row it returns False, with one it goes
\* on to mark that row
VerifyOtpSelect(c) ==
    /\ otp_calls[c].pc = "idle"
    /\ ops < MaxOps
    /\ \E user_id \in Users, otp \in Otps :
          IF MatchingOtps(user_id, otp) = {}
          THEN UNCHANGED otp_calls
          ELSE \E id \in MatchingOtps(user_id, otp) :
                  otp_calls' = [otp_calls EXCEPT ![c] =
                                   [pc |-> "update", user_id |-> user_id,
                                    otp |-> otp, id |-> id]]
    /\ ops' = ops + 1
    /\ UNCHANGED <<tables, reqs, response, oracle, now, refresh, otp_codes,
                   verified, sessions>>

\* UPDATE otp_codes SET used = TRUE WHERE id = %s, commit, return True
VerifyOtpUpdate(c) ==
    /\ otp_calls[c].pc = "update"
    /\ otp_codes' = [otp_codes EXCEPT ![otp_calls[c].id].used = TRUE]
    /\ verified' = [verified EXCEPT ![otp_calls[c].id] = @ + 1]
    /\ otp_calls' = [otp_calls EXCEPT ![c] = NoOtpCall]
    /\ UNCHANGED <<trading, sessions>>

\* forgot-password and reset-password requests, interleaved
NextOtp ==
    \/ StoreOtp
    \/ OtpExpires
    \/ \E c \in Slots : VerifyOtpSelect(c)
    \/ \E c \in Slots : VerifyOtpUpdate(c)

SpecOtp == Init /\ [][NextOtp]_vars

\* ------------------------------------------------ auth_service.py: sessions
\* jwt.encode of {sub, exp, type} with the server's key: the same claims give
\* the same string, so a token is its claims.  exp is a whole second, a fixed
\* lifetime after the second of issue, which stands for it here
Jwt(sub, type) == [sub |-> sub, type |-> type, iat |-> utcnow]

\* verify_token: the payload of a token signed by the server, None for the
\* wrong type.  The clock of the model stops long before any exp
VerifyToken(token, token_type) == token \in issued /\ token.type = token_type

\* DELETE FROM refresh_tokens WHERE token = %s
DeleteRefreshToken(rows, token) == rows \ {token}

\* login (also register and the OAuth callbacks): create_access_token and
\* create_refresh_token; store_refresh_token's INSERT fails on the UNIQUE
\* token when the row is already there, which it logs and ignores
Login ==
    /\ ops < MaxCalls
    /\ \E user_id \in Users :
          /\ issued' = issued \cup {Jwt(user_id, "access"), Jwt(user_id, "refresh")}
          /\ refresh_tokens' = refresh_tokens \cup {Jwt(user_id, "refresh")}
          /\ auth_response' = [op |-> "login", user_id |-> user_id,
                               token |-> Jwt(user_id, "refresh"),
                               accepted |-> TRUE]
    /\ ops' = ops + 1
    /\ UNCHANGED <<tables, reqs, response, oracle, now, refresh, otps, revoked,
                   utcnow>>

\* refresh_access_token(token): the JWT must be a refresh token and its row
\* must be in refresh_tokens with the user of its sub; then a new access token
\* is signed
RefreshAccessToken ==
    /\ ops < MaxCalls
    /\ \E token \in issued :
          LET accepted == /\ VerifyToken(token, "refresh")
                          /\ token \in refresh_tokens
          IN  /\ issued' = IF accepted THEN issued \cup {Jwt(token.sub, "access")}
                           ELSE issued
              /\ auth_response' = [op |-> "refresh", user_id |-> token.sub,
                                   token |-> token, accepted |-> accepted]
    /\ ops' = ops + 1
    /\ UNCHANGED <<tables, reqs, response, oracle, now, refresh, otps,
                   refresh_tokens, revoked, utcnow>>

\* logout_user(token) = delete_refresh_token(token): True when a row went
LogoutUser ==
    /\ ops < MaxCalls
    /\ \E token \in issued :
          LET deleted == token \in refresh_tokens
          IN  /\ refresh_tokens' = DeleteRefreshToken(refresh_tokens, token)
              /\ revoked' = IF deleted THEN revoked \cup {token} ELSE revoked
              /\ auth_response' = [op |-> "logout", user_id |-> token.sub,
                                   token |-> token, accepted |-> deleted]
    /\ ops' = ops + 1
    /\ UNCHANGED <<tables, reqs, response, oracle, now, refresh, otps, issued,
                   utcnow>>

\* get_current_user_from_token(token), the guard of every authenticated route
GetCurrentUserFromToken ==
    /\ ops < MaxCalls
    /\ \E token \in issued :
          auth_response' = [op |-> "authenticate", user_id |-> token.sub,
                            token |-> token,
                            accepted |-> VerifyToken(token, "access")]
    /\ ops' = ops + 1
    /\ UNCHANGED <<tables, reqs, response, oracle, now, refresh, otps,
                   refresh_tokens, issued, revoked, utcnow>>

\* one second passes
Second ==
    /\ utcnow < MaxSeconds
    /\ utcnow' = utcnow + 1
    /\ UNCHANGED <<trading, otps, refresh_tokens, issued, revoked, auth_response>>

\* logins, refreshes, logouts and authenticated calls
NextSessions ==
    \/ Login
    \/ RefreshAccessToken
    \/ LogoutUser
    \/ GetCurrentUserFromToken
    \/ Second

SpecSessions == Init /\ [][NextSessions]_vars

\* one day passes on the server and the database clock
Tick ==
    /\ now < MaxDays
    /\ now' = now + 1
    /\ UNCHANGED <<tables, reqs, response, ops, oracle, refresh, otps, sessions>>

\* trades and the two read endpoints, one request at a time, over several days
NextClock ==
    \/ NextViews
    \/ Tick

SpecClock == Init /\ [][NextClock]_vars

\* =============================================================== properties
\* sum of `field` over the rows i.. of the log that belong to user_id and
\* have the given type
RECURSIVE LogSumFrom(_, _, _, _)
LogSumFrom(i, user_id, type, field) ==
    IF i > Len(transactions) THEN 0
    ELSE (IF transactions[i].user_id = user_id /\ transactions[i].transaction_type = type
          THEN transactions[i][field] ELSE 0)
         + LogSumFrom(i + 1, user_id, type, field)

LogSum(user_id, type, field) == LogSumFrom(1, user_id, type, field)

\* the balance the log of user_id replays to, from the starting balance
ReplayedBalance(user_id) ==
    NewWallet.quantz_balance + LogSum(user_id, "DEPOSIT", "net_amount")
        + LogSum(user_id, "SELL", "net_amount") - LogSum(user_id, "BUY", "net_amount")

HeldQuantity(user_id, symbol) ==
    IF <<user_id, symbol>> \in DOMAIN stock_holdings
    THEN stock_holdings[<<user_id, symbol>>].quantity ELSE 0

\* every BUY and SELL row of the log was executed at a price above zero
PositivePricesOnly ==
    \A i \in 1..Len(transactions) :
        transactions[i].transaction_type \in {"BUY", "SELL"}
            => transactions[i].price_per_share > 0

\* the trade of request req is in the log (its COMMIT took effect)
Committed(req) ==
    \E i \in 1..Len(transactions) : transactions[i].id = req.transaction_id

\* C1: after any sequence of buy, sell and deposit requests of one user run
\* one at a time, the wallet balance equals the starting balance plus the
\* net_amount of the DEPOSIT and SELL rows minus the net_amount of the BUY
\* rows of that user, and each holding quantity (0 without a row) equals the
\* BUY quantities minus the SELL quantities.  Checked under SpecSeq, in the
\* states where no request is in progress, for the histories in which every
\* trade was executed at a price above zero.
C1_LedgerReplay ==
    (Quiet /\ PositivePricesOnly) =>
        \A u \in DOMAIN user_wallets :
            /\ user_wallets[u].quantz_balance = ReplayedBalance(u)
            /\ \A symbol \in Symbols :
                 HeldQuantity(u, symbol) =
                     LogSum(u, "BUY", "quantity") - LogSum(u, "SELL", "quantity")

\* the request in slot r is a buy that has committed and not yet returned
CommittedBuy(r) == reqs[r].pc = "buy_notify" /\ Committed(reqs[r])

C3_NonNegative ==
    /\ \A u \in DOMAIN user_wallets : user_wallets[u].quantz_balance >= 0
    /\ \A k \in DOMAIN stock_holdings : stock_holdings[k].quantity >= 0

RejectedTrade ==
    /\ ops' = ops + 1
    /\ reqs' = reqs
    /\ response'.op \in {"buy", "sell"}
    /\ response'.success = FALSE

\* C5 as the specification states it: a rejected buy or sell leaves the number
\* of transaction rows unchanged and every wallet row and holding row as it
\* was, also when the user had no wallet row before the request.
C5_NoTrace ==
    [][RejectedTrade =>
          /\ Len(transactions') = Len(transactions)
          /\ user_wallets' = user_wallets
          /\ stock_holdings' = stock_holdings]_vars

\* C5 amended: a rejected buy or sell writes no transaction row and changes no
\* holding row and no existing wallet row; a wallet row appears only for the
\* user of a rejected buy who had none, with the starting balance 10000.00,
\* total_invested 0 and total_returns 0.
C5_NoTraceButWallet ==
    [][RejectedTrade =>
          /\ transactions' = transactions
          /\ stock_holdings' = stock_holdings
          /\ \A u \in DOMAIN user_wallets :
                u \in DOMAIN user_wallets' /\ user_wallets'[u] = user_wallets[u]
          /\ \A u \in (DOMAIN user_wallets') \ DOMAIN user_wallets :
                /\ response'.op = "buy"
                /\ response'.user_id = u
                /\ user_wallets'[u].quantz_balance = InitialBalance * TicksPerUnit
                /\ user_wallets'[u].total_invested = 0
                /\ user_wallets'[u].total_returns = 0]_vars

\* the only request so far was a buy of a user without a wallet; it was
\* rejected for insufficient balance and the user now has a wallet row
C5_RejectedBuyCreatedWallet ==
    /\ ops = 1
    /\ Quiet
    /\ response.op = "buy"
    /\ response.success = FALSE
    /\ response.message = "Insufficient balance"
    /\ response.user_id \in DOMAIN user_wallets
    /\ transactions = <<>>

\* the SELL row of request req is the row this step appended to the log
SellRowAppended(req) ==
    /\ Len(transactions') = Len(transactions) + 1
    /\ transactions'[Len(transactions')].id = req.transaction_id
    /\ transactions'[Len(transactions')].transaction_type = "SELL"
    /\ transactions'[Len(transactions')].quantity = req.quantity

StoredCents(x, v) == x % CentTicks = 0 /\ 2 * Abs(x - v) <= CentTicks

\* x is the quotient n / d (d > 0) as a DECIMAL(10,4) column stores it: at
\* most half a tick from n / d
StoredQuotient(x, n, d) == 2 * Abs(x * d - n) <= d

\* request r commits a buy in this step
BuyCommits(r) ==
    /\ reqs[r].pc = "buy_execute"
    /\ reqs'[r].pc = "buy_notify"
    /\ Len(transactions') = Len(transactions) + 1

\* request r commits a sell in this step
SellCommits(r) ==
    /\ reqs[r].pc = "sell_execute"
    /\ reqs'[r].pc = "sell_notify"
    /\ Len(transactions') = Len(transactions) + 1

C9_WalletEffectOfBuy ==
    [][\A r \in Slots :
          (BuyCommits(r) /\ PositivePricesOnly') =>
              LET q   == reqs[r].quantity
                  p   == reqs[r].current_price
                  u   == reqs[r].user_id
                  row == transactions'[Len(transactions')]
              IN  /\ StoredCents(user_wallets'[u].quantz_balance,
                                 user_wallets[u].quantz_balance - p * q)
                  /\ StoredCents(user_wallets'[u].total_invested,
                                 user_wallets[u].total_invested + p * q)
                  /\ user_wallets'[u].total_returns = user_wallets[u].total_returns
                  /\ SubSeq(transactions', 1, Len(transactions)) = transactions
                  /\ row.transaction_type = "BUY"
                  /\ row.total_amount = row.net_amount
                  /\ StoredCents(row.net_amount, p * q)
                  /\ row.fees = 0
                  /\ reqs'[r].new_balance = user_wallets[u].quantz_balance - p * q]_vars

\* the order of the sources the specification gives
ClaimedOrder == <<"finnhub", "alpha_vantage", "yf_fast_info", "yf_info",
                  "yf_history", "yahoo_chart">>

\* the answer is a number greater than zero
Positive(answer) == answer.kind = "value" /\ answer.value > 0

\* C10: get_real_time_price consults its sources in the fixed order Finnhub,
\* Alpha Vantage, yfinance fast_info, yfinance info, yfinance history, Yahoo
\* chart; it returns exactly the value of the first source whose result is
\* greater than zero; no source after that one is consulted; the value is the
\* one that source gave (for yfinance info, its first field greater than zero),
\* never a combination; it returns nothing only after all six gave no such value.
C10_FallbackOrder ==
    LET log == oracle.consulted
        n   == Len(oracle.consulted)
    IN  /\ n <= Len(ClaimedOrder)
        /\ \A j \in 1..n : log[j].source = ClaimedOrder[j]
        /\ \A j \in 1..n : j < n => ~Positive(log[j].answer)
        /\ \A j \in 1..n :
              (log[j].info # <<>> /\ Positive(log[j].answer)) =>
                  \E f \in 1..Len(log[j].info) :
                      /\ log[j].info[f] = log[j].answer.value
                      /\ \A g \in 1..(f - 1) : log[j].info[g] <= 0
        /\ oracle.pc = "call" => \A j \in 1..n : ~Positive(log[j].answer)
        /\ oracle.pc = "returned" =>
              IF oracle.result.found
              THEN /\ n >= 1
                   /\ Positive(log[n].answer)
                   /\ oracle.result.price = log[n].answer.value
              ELSE /\ n = Len(ClaimedOrder)
                   /\ \A j \in 1..n : ~Positive(log[j].answer)

\* source 1 raised, source 2 answered 42.00: the call returned 42.00 and
\* consulted no third source
C10_SecondSourceReturned ==
    /\ oracle.pc = "returned"
    /\ Len(oracle.consulted) = 2
    /\ oracle.consulted[1].answer.kind = "exception"
    /\ oracle.consulted[2].answer = [kind |-> "value", value |-> 420000]
    /\ oracle.result = [found |-> TRUE, price |-> 420000]

\* C11: whatever each source answers (exception or timeout, missing key,
\* non-200 status, missing field, a value <= 0), get_real_time_price does not
\* stop before it returns (no answer leaves it without a next step, and it
\* never calls more than the six sources); it returns None if and only if no
\* source produced a value greater than zero, and it never returns a value
\* that is not greater than zero.
C11_OracleNeverFails ==
    LET log == oracle.consulted
        n   == Len(oracle.consulted)
    IN  /\ oracle.pc \in {"call", "returned"}
        /\ oracle.pc = "call" => ENABLED NextOracle
        /\ n <= Len(ClaimedOrder)
        /\ \A j \in 1..n :
              (log[j].info # <<>> /\ \E f \in 1..Len(log[j].info) : log[j].info[f] > 0)
                  => Positive(log[j].answer)
        /\ oracle.pc = "returned" =>
              /\ oracle.result.found = FALSE <=> \A j \in 1..n : ~Positive(log[j].answer)
              /\ oracle.result.found => oracle.result.price > 0
              /\ oracle.result.found = FALSE => n = Len(ClaimedOrder)

\* every source was consulted and each failed in a different way: no key, a
\* non-200 status, an exception, no usable field, the value 0, a negative
\* value; the call returned None
C11_AllSixFailed ==
    /\ oracle.pc = "returned"
    /\ oracle.result.found = FALSE
    /\ Len(oracle.consulted) = 6
    /\ oracle.consulted[1].answer.kind = "no_key"
    /\ oracle.consulted[2].answer.kind = "status"
    /\ oracle.consulted[3].answer.kind = "exception"
    /\ oracle.consulted[4].answer.kind = "missing"
    /\ oracle.consulted[5].answer = [kind |-> "value", value |-> 0]
    /\ oracle.consulted[6].answer = [kind |-> "value", value |-> -420000]

\* ------------------------------------------------------------------ C12
\* the price a request in flight trades at, against what its caller supplied
\* and what the oracle was asked
ResolvedAsClaimed(req) ==
    IF req.supplied.given
    THEN /\ req.current_price = req.supplied.price
         /\ req.oracle_calls = 0
    ELSE /\ req.oracle_calls = 1
         /\ req.quoted.found
         /\ req.current_price = req.quoted.price

\* the trade row a step appends carries the resolved price of its request
ExecutesAtResolvedPrice ==
    \A r \in Slots :
        (BuyCommits(r) \/ SellCommits(r)) =>
            /\ ResolvedAsClaimed(reqs[r])
            /\ transactions'[Len(transactions')].price_per_share = reqs[r].current_price

PriceUnavailable ==
    RejectedTrade /\ response'.message = "Unable to fetch current stock price"

\* C12 as stated: a supplied price is the execution price and the oracle is
\* not consulted; without one the trade executes at the oracle's price; a
\* request rejected because the oracle returned unavailable has read for
\* update or written no wallet, holding or transaction row
C12_PriceResolution ==
    [][ /\ \A r \in Slots : reqs'[r].op \in {"buy", "sell"} => ResolvedAsClaimed(reqs'[r])
        /\ ExecutesAtResolvedPrice
        /\ PriceUnavailable => UNCHANGED tables ]_vars

\* C12 (amended): the same, except that the buy route has by then created the
\* caller's wallet and summary rows when they were missing; every other row is
\* untouched
C12_PriceResolutionButWallet ==
    [][ /\ \A r \in Slots : reqs'[r].op \in {"buy", "sell"} => ResolvedAsClaimed(reqs'[r])
        /\ ExecutesAtResolvedPrice
        /\ PriceUnavailable =>
              /\ UNCHANGED <<stock_holdings, transactions, notifications,
                             stock_prices_cache, next_transaction_id>>
              /\ \A u \in DOMAIN user_wallets :
                    u \in DOMAIN user_wallets' /\ user_wallets'[u] = user_wallets[u]
              /\ \A u \in DOMAIN user_wallets' \ DOMAIN user_wallets :
                    /\ response'.op = "buy" /\ response'.user_id = u
                    /\ user_wallets'[u] = NewWallet
              /\ response'.op = "sell" => UNCHANGED <<user_wallets, portfolio_summary>> ]_vars

\* a buy at the oracle's price has committed after another request was
\* rejected because the oracle had no price
C12_OraclePricedBuyAfterUnavailable ==
    /\ response.message = "Unable to fetch current stock price"
    /\ \E r \in Slots :
          /\ reqs[r].pc = "buy_notify" /\ Committed(reqs[r])
          /\ ~reqs[r].supplied.given /\ reqs[r].oracle_calls = 1
          /\ transactions[Len(transactions)].price_per_share = reqs[r].quoted.price

\* ------------------------------------------------------------------ C13
\* request r leaves its atomic update through the exception handler in this
\* step: it ends without reaching the notification
FailedUpdate(r) ==
    /\ reqs[r].pc \in {"buy_execute", "sell_read_wallet", "sell_execute"}
    /\ reqs'[r].pc = "idle"

\* C13 as stated: when a statement of the atomic update of a buy or a sell
\* raises, the caller receives the failure "Transaction failed" and the
\* wallet row, the holding rows and the transaction log are as they were
\* before the request, so the request itself has written no wallet row
\* either.  Stated for the requests that trade at a price above zero.
C13_AllOrNothing ==
    [][\A r \in Slots :
          (FailedUpdate(r) /\ reqs[r].current_price > 0) =>
              /\ UNCHANGED <<user_wallets, stock_holdings, transactions>>
              /\ reqs[r].op = "buy" => reqs[r].wallet_found
              /\ response'.op = reqs[r].op
              /\ response'.success = FALSE
              /\ response'.message = "Transaction failed"]_vars

\* C13 (amended): when a statement of the atomic update raises, the caller
\* receives the failure "Transaction failed" and every wallet row, holding
\* row and transaction row is as it was when the atomic update began; the
\* wallet row the buy route created before it stays
C13_AllOrNothingSinceBegin ==
    [][\A r \in Slots :
          FailedUpdate(r) =>
              /\ UNCHANGED <<user_wallets, stock_holdings, transactions>>
              /\ response'.op = reqs[r].op
              /\ response'.success = FALSE
              /\ response'.message = "Transaction failed"]_vars

\* a sell has failed in its atomic update after a buy had committed: the
\* holding and the BUY row are still there
C13_SellFailedAfterBuy ==
    /\ response.op = "sell"
    /\ response.success = FALSE
    /\ response.message = "Transaction failed"
    /\ Len(transactions) = 1
    /\ transactions[1].transaction_type = "BUY"
    /\ <<response.user_id, response.symbol>> \in DOMAIN stock_holdings

\* ------------------------------------------------------------------ C14
\* request r leaves its atomic update past COMMIT in this step: from here it
\* writes the notification and returns success with its transaction_id
ReturnsSuccess(r) ==
    /\ reqs[r].pc \in {"buy_execute", "sell_execute"}
    /\ reqs'[r].pc \in {"buy_notify", "sell_notify"}

NotificationFailed(r) ==
    /\ reqs[r].pc \in {"buy_notify", "sell_notify"}
    /\ Committed(reqs[r])
    /\ reqs'[r].pc = "idle"
    /\ notifications' = notifications

Notifies(r) ==
    /\ reqs[r].pc \in {"buy_notify", "sell_notify"}
    /\ reqs'[r].pc = "idle"
    /\ notifications' # notifications

\* the number of notification rows, all users and titles together
NotificationCount(rows) ==
    SumOver([k \in DOMAIN rows |-> [n |-> rows[k]]], DOMAIN rows, "n")

PortfolioAnswered ==
    /\ ops' = ops + 1
    /\ reqs' = reqs
    /\ response'.op = "portfolio"

\* the user has no holding row
NoHoldings(user_id) == \A k \in DOMAIN stock_holdings : k[1] # user_id

\* success with total_portfolio_value 0, no holdings, number_of_holdings 0
EmptySuccess(resp) ==
    /\ resp.success = TRUE
    /\ resp.data.total_portfolio_value = 0
    /\ DOMAIN resp.data.holdings = {}
    /\ resp.data.number_of_holdings = 0

\* C17 as stated: for a user without holding rows get_portfolio always
\* returns success with total_portfolio_value 0, holdings empty and
\* number_of_holdings 0, never an error
C17_ZeroHoldings ==
    [][(PortfolioAnswered /\ NoHoldings(response'.user_id)) =>
          EmptySuccess(response')]_vars

\* C17 (amended): for a user without holding rows get_portfolio returns that
\* success response whenever it has obtained its database connection, also
\* when its query fails; the only error is the HTTP 500 answered when the
\* connection cannot be established
C17_ZeroHoldingsWhenConnected ==
    [][(PortfolioAnswered /\ NoHoldings(response'.user_id)) =>
          \/ EmptySuccess(response')
          \/ response'.success = FALSE /\ response'.message = NoConnection]_vars

\* user 1 has bought and sold everything, and get_portfolio has answered
\* success with the empty portfolio
C17_EmptyAfterSellingAll ==
    /\ response.op = "portfolio"
    /\ response.user_id \in Traders
    /\ EmptySuccess(response)
    /\ Len(transactions) = 2
    /\ DOMAIN stock_holdings = {}

\* ------------------------------------------------------------------ C18
\* quantity, average_price and total_cost of a holding row
CostBasis(row) ==
    [quantity |-> row.quantity, average_price |-> row.average_price,
     total_cost |-> row.total_cost]

\* C18: a get_portfolio call, whatever the oracle and the storage answer,
\* leaves quantity, average_price and total_cost of every holding, every
\* wallet and the transaction log unchanged; and a call that follows another
\* call of the same user with no trade in between returns, for each holding
\* both report, the same quantity, total_cost and average_price
C18_ValuationReadOnly ==
    [][PortfolioAnswered =>
          /\ DOMAIN stock_holdings' = DOMAIN stock_holdings
          /\ \A k \in DOMAIN stock_holdings :
                CostBasis(stock_holdings'[k]) = CostBasis(stock_holdings[k])
          /\ UNCHANGED <<user_wallets, transactions, next_transaction_id>>
          /\ (response.op = "portfolio" /\ response.user_id = response'.user_id) =>
                \A sym \in DOMAIN response.data.holdings
                              \cap DOMAIN response'.data.holdings :
                    CostBasis(response'.data.holdings[sym])
                        = CostBasis(response.data.holdings[sym])]_vars

\* two calls in a row have reported the holding of user 1; the first wrote
\* the quoted price 6000.00 into the row bought at 5.005, and the second,
\* without a quote, reported it at its average price
C18_RevaluedThenReportedAgain ==
    /\ response.op = "portfolio"
    /\ response.success = TRUE
    /\ ops = 3
    /\ Len(transactions) = 1
    /\ \E k \in DOMAIN stock_holdings :
          /\ k[2] \in DOMAIN response.data.holdings
          /\ response.data.holdings[k[2]].error = TRUE
          /\ stock_holdings[k].average_price = 50050
          /\ stock_holdings[k].current_price = 60000000

\* ------------------------------------------------------------------ C19
\* get_wallet is called and answers in this step
WalletAnswered ==
    /\ ops' = ops + 1
    /\ reqs' = reqs
    /\ response'.op = "wallet"

\* C19: for every outcome of the wallet reads and of the initialization, and
\* for any exception in the handler, GET /trading/wallet returns success
\* with a wallet view (balance, total_invested, total_returns), and a
\* response without a warning carries exactly the values of the stored
\* wallet row of that user
C19_WalletNeverFails ==
    [][WalletAnswered =>
          /\ response'.success = TRUE
          /\ DOMAIN response'.data
                = {"quantz_balance", "total_invested", "total_returns"}
          /\ response'.message = "" =>
                /\ response'.user_id \in DOMAIN user_wallets'
                /\ response'.data = WalletView(user_wallets'[response'.user_id])]_vars

\* the wallet of user 1 holds less than 10000 after a buy, its read failed,
\* and the endpoint answered success with the default 10000 and a warning
C19_DefaultsInsteadOfStoredRow ==
    /\ response.op = "wallet"
    /\ response.success = TRUE
    /\ response.message = "Wallet data temporarily unavailable"
    /\ response.user_id \in DOMAIN user_wallets
    /\ user_wallets[response.user_id].quantz_balance < InitialBalance * TicksPerUnit
    /\ response.data.quantz_balance = InitialBalance * TicksPerUnit

\* ------------------------------------------------------------------ C20
\* a request arrives in this step: the routes of GET /trading/wallet, buy and
\* deposit read the caller's wallet and initialize it when they find none
RequestArrives == ops' = ops + 1

\* C20: the step in which a request arrives, with trades of the same user in
\* progress or not, leaves every existing wallet row as it is, however often
\* the wallet is initialized again; a wallet row that appears in it has cash
\* balance 10000, total_invested 0 and total_returns 0; and no wallet row is
\* created or removed in any other step
C20_LazyCreationIdempotent ==
    [][/\ \A u \in DOMAIN user_wallets : u \in DOMAIN user_wallets'
       /\ ~RequestArrives => DOMAIN user_wallets' = DOMAIN user_wallets
       /\ RequestArrives =>
             /\ \A u \in DOMAIN user_wallets :
                   /\ user_wallets'[u].quantz_balance = user_wallets[u].quantz_balance
                   /\ user_wallets'[u].total_invested = user_wallets[u].total_invested
                   /\ user_wallets'[u].total_returns = user_wallets[u].total_returns
             /\ \A u \in DOMAIN user_wallets' \ DOMAIN user_wallets :
                   /\ user_wallets'[u].quantz_balance = InitialBalance * TicksPerUnit
                   /\ user_wallets'[u].total_invested = 0
                   /\ user_wallets'[u].total_returns = 0]_vars

\* GET /trading/wallet has answered, without a warning, the balance of a
\* wallet that a committed buy had changed, while another buy of that user,
\* which found the wallet, is in progress
C20_InitializedAgainAmongTrades ==
    /\ response.op = "wallet"
    /\ response.message = ""
    /\ response.user_id \in DOMAIN user_wallets
    /\ user_wallets[response.user_id].total_invested > 0
    /\ response.data.quantz_balance = user_wallets[response.user_id].quantz_balance
    /\ \E r \in Slots :
          /\ reqs[r].pc = "buy_execute"
          /\ reqs[r].user_id = response.user_id
          /\ reqs[r].wallet_found

\* ------------------------------------------------------------------ C21
\* the prices the oracle quotes
QuotedPrices ==
    {GetRealTimePrice(outs).price :
        outs \in {o \in OracleScenarios : GetRealTimePrice(o).found}}

C22_DaysHeldAtLeastOne ==
    (response.op = "portfolio" /\ response.success = TRUE)
        => \A s \in DOMAIN response.data.holdings :
               (/\ response.data.holdings[s].error = FALSE
                /\ response.data.holdings[s].average_price > 0)
                   => response.data.holdings[s].days_held >= 1

WaitsOnRefresh(r) ==
    /\ reqs[r].pc \in {"buy_execute", "sell_execute"}
    /\ reqs[r].current_price > 0
    /\ RowLocked(<<reqs[r].user_id, reqs[r].symbol>>)
    /\ stock_holdings[<<reqs[r].user_id, reqs[r].symbol>>].average_price > 0

C24_TradesAtPositivePrice ==
    \A i \in 1..Len(transactions) :
        transactions[i].transaction_type \in {"BUY", "SELL"}
            => /\ transactions[i].price_per_share > 0
               /\ transactions[i].total_amount > 0

\* ------------------------------------------------------------------ C25
\* the shares of symbol the committed rows of the given type moved for user_id,
\* over the first n rows of the log
RECURSIVE TradedQuantity(_, _, _, _)
TradedQuantity(type, user_id, symbol, n) ==
    IF n = 0 THEN 0
    ELSE TradedQuantity(type, user_id, symbol, n - 1)
            + (IF /\ transactions[n].transaction_type = type
                  /\ transactions[n].user_id = user_id
                  /\ transactions[n].symbol = symbol
               THEN transactions[n].quantity ELSE 0)

\* C25: under any interleaving of sell requests of one user on one symbol the
\* committed SELL rows never add up to more shares than were held, i.e. than
\* the committed BUY rows brought in.  Checked for the histories in which
\* every trade was executed at a price above zero.
C25_NoOverselling ==
    PositivePricesOnly =>
        \A u \in Users, s \in Symbols :
            TradedQuantity("SELL", u, s, Len(transactions))
                <= TradedQuantity("BUY", u, s, Len(transactions))

\* ------------------------------------------------------------------ C26
\* the deposit in slot r returns in this step
DepositReturns(r) ==
    /\ reqs[r].op = "deposit"
    /\ reqs[r].pc \in {"deposit_update", "deposit_record"}
    /\ reqs'[r].pc = "idle"

\* the DEPOSIT rows of the log
DepositRows(log) ==
    {i \in 1..Len(log) : log[i].transaction_type = "DEPOSIT"}

\* C26: a deposit of a positive amount is all or nothing.  With requests run
\* one at a time, when the deposit returns either the wallet balance is the
\* balance it read plus the amount and the log has exactly one more DEPOSIT
\* row, of that amount, or the balance is the one it read and no row was
\* written
C26_DepositAllOrNothing ==
    [][\A r \in Slots :
          DepositReturns(r) =>
              LET u      == reqs[r].user_id
                  amount == reqs[r].current_price
                  before == reqs[r].current_balance
              IN  \/ /\ user_wallets'[u].quantz_balance = before + amount
                     /\ Len(transactions') = Len(transactions) + 1
                     /\ Cardinality(DepositRows(transactions'))
                           = Cardinality(DepositRows(transactions)) + 1
                     /\ transactions'[Len(transactions')].net_amount = amount
                     /\ transactions'[Len(transactions')].user_id = u
                  \/ /\ user_wallets'[u].quantz_balance = before
                     /\ transactions' = transactions]_vars

\* ------------------------------------------------------------------ C27
\* C27: the wallet_balance of a successful get_portfolio answer that carries
\* no warning is the stored cash balance of that user's wallet row, with or
\* without holdings
C27_PortfolioWalletBalance ==
    (/\ response.op = "portfolio"
     /\ response.success = TRUE
     /\ response.message = ""
     /\ response.user_id \in DOMAIN user_wallets)
        => response.data.wallet_balance
               = user_wallets[response.user_id].quantz_balance

\* ------------------------------------------------------------------ C29
\* C29: for each stored OTP at most one verify_otp call ever returns true,
\* also when calls with the same OTP run concurrently
C29_OtpSingleUse ==
    \A id \in 1..Len(otp_codes) : verified[id] <= 1

\* ------------------------------------------------------------------ C30
\* a call of operation op on a token returns in this step
AuthReturns(op) == ops' = ops + 1 /\ auth_response'.op = op

\* access tokens are accepted only as access tokens and refresh tokens only
\* as refresh tokens
TypesKept ==
    /\ (AuthReturns("refresh") /\ auth_response'.accepted)
           => auth_response'.token.type = "refresh"
    /\ (AuthReturns("authenticate") /\ auth_response'.accepted)
           => auth_response'.token.type = "access"

\* C30: after logout_user(t) has returned true, every later
\* refresh_access_token(t) returns no access token; and the two token types
\* are never accepted for one another
C30_LogoutRevokes ==
    [][/\ (AuthReturns("refresh") /\ auth_response'.token \in revoked)
              => ~auth_response'.accepted
       /\ TypesKept]_vars

=============================================================================
